---------------------------- MODULE Spec2Model ----------------------------
(***************************************************************************)
(* Model of edgelet/aziot-edged/src/main.rs: the lifecycle orchestrator    *)
(* run() of the Azure IoT Edge daemon, the GC-settings validator           *)
(* check_settings_and_populate, the signal bridge set_signal_handlers and  *)
(* the process boundary main().                                            *)
(***************************************************************************)
EXTENDS Integers, Sequences, FiniteSets, TLC

(***************************************************************************)
(* Bounds of the model (not program constants).                            *)
(***************************************************************************)
\* longest cleanup_time string enumerated over Alphabet
MaxStrLen == 4
\* recurrence values are enumerated within this many seconds of one day
RecSpread == 2
\* number of work steps the maintenance loop may be observed to take
MaxGcSteps == 1

(***************************************************************************)
(* Program constants.                                                      *)
(***************************************************************************)
DEFAULT_CLEANUP_TIME == <<"0", "0", ":", "0", "0">>
DEFAULT_RECURRENCE_IN_SECS == 60 * 60 * 24
DEFAULT_MIN_AGE_IN_SECS == 60 * 60 * 24 * 7
\* run(): milliseconds
shutdown_timeout == 10000
poll_period == 100
\* initial value of the AtomicUsize `tasks`
INITIAL_TASKS == 2

(***************************************************************************)
(* Option<T>: None is the empty sequence, Some(v) the one-element one.     *)
(***************************************************************************)
None == << >>
Some(v) == << v >>
is_some(o) == o # None
unwrap(o) == o[1]

(***************************************************************************)
(* NaiveTime::parse_from_str(s, "%H:%M") (chrono).  A numeric item takes   *)
(* between one and two leading ASCII digits (scan::number(s, 1, 2)); the   *)
(* literal ":" must follow; input left over is an error (TOO_LONG); the    *)
(* fields are range-checked when the NaiveTime is built.                   *)
(***************************************************************************)
Digits == {"0", "1", "2", "3", "4", "5", "6", "7", "8", "9"}

DigitVal(c) ==
    CASE c = "0" -> 0 [] c = "1" -> 1 [] c = "2" -> 2 [] c = "3" -> 3
      [] c = "4" -> 4 [] c = "5" -> 5 [] c = "6" -> 6 [] c = "7" -> 7
      [] c = "8" -> 8 [] c = "9" -> 9

\* how many leading digits a numeric item of maximal width 2 consumes
scan_width(s) ==
    IF Len(s) >= 1 /\ s[1] \in Digits
    THEN (IF Len(s) >= 2 /\ s[2] \in Digits THEN 2 ELSE 1)
    ELSE 0

\* value of the first w digits of s
scan_value(s, w) ==
    IF w = 2 THEN 10 * DigitVal(s[1]) + DigitVal(s[2]) ELSE DigitVal(s[1])

Drop(s, n) == SubSeq(s, n + 1, Len(s))

\* result of the parse: [ok |-> TRUE, hour, minute] or [ok |-> FALSE, err]
parse_from_str(s) ==
    LET hw == scan_width(s)
        s1 == Drop(s, hw)
        s2 == Drop(s1, 1)
        mw == scan_width(s2)
        s3 == Drop(s2, mw)
    IN  IF hw = 0
        THEN [ok |-> FALSE, err |-> IF Len(s) = 0 THEN "TOO_SHORT" ELSE "INVALID"]
        ELSE IF Len(s1) = 0
        THEN [ok |-> FALSE, err |-> "TOO_SHORT"]
        ELSE IF s1[1] # ":"
        THEN [ok |-> FALSE, err |-> "INVALID"]
        ELSE IF mw = 0
        THEN [ok |-> FALSE, err |-> IF Len(s2) = 0 THEN "TOO_SHORT" ELSE "INVALID"]
        ELSE IF Len(s3) # 0
        THEN [ok |-> FALSE, err |-> "TOO_LONG"]
        ELSE IF scan_value(s, hw) > 23 \/ scan_value(s2, mw) > 59
        THEN [ok |-> FALSE, err |-> "OUT_OF_RANGE"]
        ELSE [ok |-> TRUE, hour |-> scan_value(s, hw), minute |-> scan_value(s2, mw)]

(***************************************************************************)
(* ImagePruneSettings::new(recurrence, min_age, cleanup_time, enabled).    *)
(* Durations are whole seconds.                                            *)
(***************************************************************************)
ImagePruneSettings(rec, age, ct, en) ==
    [cleanup_recurrence |-> rec, image_age_cleanup_threshold |-> age,
     cleanup_time |-> ct, enabled |-> en]

\* run(): the built-in `defaults` object
defaults ==
    ImagePruneSettings(Some(DEFAULT_RECURRENCE_IN_SECS), Some(DEFAULT_MIN_AGE_IN_SECS),
                       Some(DEFAULT_CLEANUP_TIME), TRUE)

(***************************************************************************)
(* check_settings_and_populate.  The `cleanup_time` bound inside the       *)
(* `if` shadows the outer one only within that block, so the value         *)
(* returned is the outer binding.                                          *)
(***************************************************************************)
\* recurrence_too_small with the boundary on the wrong side
recurrence_too_small_inclusive(recurrence) == recurrence <= 60 * 60 * 24

\* line 319
recurrence_too_small(recurrence) == recurrence < 60 * 60 * 24

\* lines 338-339
cleanup_time_invalid(ct) == ~ parse_from_str(ct).ok

\* check_settings_and_populate returning the cleanup time it validated
check_settings_and_populate_KeepsCleanupTime(settings) ==
    LET recurrence == IF is_some(settings.cleanup_recurrence)
                      THEN unwrap(settings.cleanup_recurrence)
                      ELSE DEFAULT_RECURRENCE_IN_SECS
        cleanup_time == IF is_some(settings.cleanup_time)
                        THEN unwrap(settings.cleanup_time)
                        ELSE DEFAULT_CLEANUP_TIME
        min_age == IF is_some(settings.image_age_cleanup_threshold)
                   THEN unwrap(settings.image_age_cleanup_threshold)
                   ELSE DEFAULT_MIN_AGE_IN_SECS
    IN  IF is_some(settings.cleanup_recurrence) /\ recurrence_too_small(recurrence)
        THEN [ok |-> FALSE, err |-> "cleanup recurrence cannot be less than 1 day"]
        ELSE IF is_some(settings.cleanup_time)
                /\ cleanup_time_invalid(unwrap(settings.cleanup_time))
        THEN [ok |-> FALSE, err |-> "invalid cleanup time"]
        ELSE [ok |-> TRUE,
              value |-> ImagePruneSettings(Some(recurrence), Some(min_age),
                                           Some(cleanup_time), settings.enabled)]

\* check_settings_and_populate that never takes the supplied min_age
check_settings_and_populate_DefaultMinAge(settings) ==
    LET recurrence == IF is_some(settings.cleanup_recurrence)
                      THEN unwrap(settings.cleanup_recurrence)
                      ELSE DEFAULT_RECURRENCE_IN_SECS
    IN  IF is_some(settings.cleanup_recurrence) /\ recurrence_too_small(recurrence)
        THEN [ok |-> FALSE, err |-> "cleanup recurrence cannot be less than 1 day"]
        ELSE IF is_some(settings.cleanup_time)
                /\ cleanup_time_invalid(unwrap(settings.cleanup_time))
        THEN [ok |-> FALSE, err |-> "invalid cleanup time"]
        ELSE [ok |-> TRUE,
              value |-> ImagePruneSettings(Some(recurrence),
                                           Some(DEFAULT_MIN_AGE_IN_SECS),
                                           Some(DEFAULT_CLEANUP_TIME), settings.enabled)]

\* lines 309-360
check_settings_and_populate(settings) ==
    LET recurrence == IF is_some(settings.cleanup_recurrence)
                      THEN unwrap(settings.cleanup_recurrence)
                      ELSE DEFAULT_RECURRENCE_IN_SECS
        cleanup_time == DEFAULT_CLEANUP_TIME
        min_age == IF is_some(settings.image_age_cleanup_threshold)
                   THEN unwrap(settings.image_age_cleanup_threshold)
                   ELSE DEFAULT_MIN_AGE_IN_SECS
    IN  IF is_some(settings.cleanup_recurrence) /\ recurrence_too_small(recurrence)
        THEN [ok |-> FALSE, err |-> "cleanup recurrence cannot be less than 1 day"]
        ELSE IF is_some(settings.cleanup_time)
                /\ cleanup_time_invalid(unwrap(settings.cleanup_time))
        THEN [ok |-> FALSE, err |-> "invalid cleanup time"]
        ELSE [ok |-> TRUE,
              value |-> ImagePruneSettings(Some(recurrence), Some(min_age),
                                           Some(cleanup_time), settings.enabled)]


(***************************************************************************)
(* Inputs.                                                                 *)
(***************************************************************************)
DAY == 60 * 60 * 24

\* characters of the enumerated cleanup_time strings
Alphabet == {"0", "2", "6", ":", "a"}

RECURSIVE StringsOfLen(_)
StringsOfLen(n) ==
    IF n = 0 THEN {<< >>}
    ELSE {Append(s, c) : s \in StringsOfLen(n - 1), c \in Alphabet}

ShortStrings == UNION {StringsOfLen(n) : n \in 0..MaxStrLen}

\* every "dd:dd" with hours 00..29 and minutes 00..69 (all of 00:00..23:59 and
\* the out-of-range neighbours)
DigitOf(n) ==
    CASE n = 0 -> "0" [] n = 1 -> "1" [] n = 2 -> "2" [] n = 3 -> "3"
      [] n = 4 -> "4" [] n = 5 -> "5" [] n = 6 -> "6" [] n = 7 -> "7"
      [] n = 8 -> "8" [] n = 9 -> "9"

TwoDigit(n) == <<DigitOf(n \div 10), DigitOf(n % 10)>>

HHMM(h, m) == TwoDigit(h) \o <<":">> \o TwoDigit(m)

ClockStrings == {HHMM(h, m) : h \in 0..29, m \in 0..69}

\* tests::test_validate_settings
TestStrings ==
    { <<"1", "2", "3", "4", "5">>, <<"a", "b", "c", "d", "e">>,
      <<"2", "6", ":", "3", "0">>, <<"1", "6", ":", "6", "1">>,
      <<"2", "3", ":", "3", "3", "3">>, <<"2", ":", "0", "3", "3">>,
      <<":", ":", ":", "0", "0">> }

CleanupTimeInputs == ShortStrings \cup ClockStrings \cup TestStrings

RecurrenceInputs ==
    {0} \cup ((DAY - RecSpread)..(DAY + RecSpread)) \cup {DEFAULT_MIN_AGE_IN_SECS}

MinAgeInputs == {0}

OptionOf(S) == {None} \cup {Some(v) : v \in S}

\* the configurations a whole run is explored with: no section at all, or a section
RunSettings ==
    { ImagePruneSettings(None, None, None, TRUE),
      ImagePruneSettings(None, None, None, FALSE),
      ImagePruneSettings(Some(DAY - 1), None, None, TRUE),
      ImagePruneSettings(None, None, Some(<<"2", "6", ":", "3", "0">>), FALSE) }

(***************************************************************************)
(* State.                                                                  *)
(***************************************************************************)
VARIABLES
    pc,               \* position of main()/run()
    gc_config,        \* settings.image_garbage_collection(): Option<ImagePruneSettings>
    check_result,     \* Option of the value returned by check_settings_and_populate
    store_settings,   \* Option of the settings given to ImagePruneData::new
    loop_settings,    \* Option of the settings given to image_garbage_collect
    log,              \* the orchestrator's steps so far, in order
    stop_all_failed,  \* runtime.stop_all returned Err
    tasks,            \* the AtomicUsize task counter
    workload,         \* Workload API task
    management,       \* Management API task
    sigint,           \* the ctrl_c listener task
    sigterm,          \* the SIGTERM listener task
    wd_queue,         \* Signal actions posted to the watchdog channel by the listeners
    rx_alive,         \* watchdog_rx (the watchdog future that owns it) not yet dropped
    watchdog,         \* the watchdog::run_until_shutdown future
    image_gc,         \* the image_gc::image_garbage_collect future
    gc_steps,         \* work steps taken by the maintenance loop
    winner,           \* branch of tokio::select! that completed
    shutdown_reason,  \* Option<WatchdogAction>
    mgmt_sent,        \* successful management_shutdown.send(())
    wl_sent,          \* successful workload_shutdown.send(())
    wait_time,        \* drain loop: milliseconds waited
    sleeps,           \* drain loop: number of tokio::time::sleep(poll_period)
    warned,           \* Option of the count named in the drain timeout warning
    reprov_calls,     \* calls of provision::reprovision
    reprov_result,    \* what provision::reprovision returned: "none", "Ok" or "Err"
    outcome,          \* what run() returned: "none", "Ok", "Err" or "Panic"
    error,            \* the EdgedError returned
    exit_status,      \* the process exit status
    log_level         \* level main() logged the error at

vars == <<pc, gc_config, check_result, store_settings, loop_settings, log,
          stop_all_failed, tasks, workload, management, sigint, sigterm, wd_queue,
          rx_alive, watchdog, image_gc, gc_steps, winner, shutdown_reason,
          mgmt_sent, wl_sent, wait_time, sleeps, warned, reprov_calls, reprov_result,
          outcome,
          error, exit_status, log_level>>

gcVars == <<check_result, store_settings, loop_settings>>
taskVars == <<tasks, workload, management>>
sigVars == <<sigint, sigterm, wd_queue>>
raceVars == <<rx_alive, watchdog, image_gc, gc_steps, winner, shutdown_reason>>
stopVars == <<mgmt_sent, wl_sent>>
drainVars == <<wait_time, sleeps, warned>>
endVars == <<reprov_calls, reprov_result, outcome, error, exit_status, log_level>>

\* WatchdogAction (edgelet_core)
WatchdogAction == {"Signal", "Reprovision", "EdgeCaRenewal"}

\* run(): `gc_settings`, the parsed section or a reference to `defaults`
gc_settings == IF is_some(gc_config) THEN unwrap(gc_config) ELSE defaults

Happened(e) == \E i \in 1..Len(log) : log[i] = e
Count(e) == Cardinality({i \in 1..Len(log) : log[i] = e})
Index(e) == CHOOSE i \in 1..Len(log) : log[i] = e
Before(a, b) == Happened(a) /\ (Happened(b) => Index(a) < Index(b))

(***************************************************************************)
(* Init: the process has started and run() is about to load the settings.  *)
(***************************************************************************)
Fresh ==
    /\ check_result = None
    /\ store_settings = None
    /\ loop_settings = None
    /\ stop_all_failed = FALSE
    /\ tasks = 0
    /\ workload = "unstarted"
    /\ management = "unstarted"
    /\ sigint = "absent"
    /\ sigterm = "absent"
    /\ wd_queue = 0
    /\ rx_alive = FALSE
    /\ watchdog = "none"
    /\ image_gc = "none"
    /\ gc_steps = 0
    /\ winner = "none"
    /\ shutdown_reason = None
    /\ mgmt_sent = 0
    /\ wl_sent = 0
    /\ wait_time = 0
    /\ sleeps = 0
    /\ warned = None
    /\ reprov_calls = 0
    /\ reprov_result = "none"
    /\ outcome = "none"
    /\ error = "none"
    /\ exit_status = "running"
    /\ log_level = "none"

Init ==
    /\ pc = "settings"
    /\ gc_config \in OptionOf(RunSettings)
    /\ log = << >>
    /\ Fresh

(***************************************************************************)
(* Startup phases of run().  A phase either succeeds and is logged, or     *)
(* fails, in which case `?` returns the error from run().                  *)
(***************************************************************************)
Return(err) ==
    /\ pc' = "done"
    /\ outcome' = "Err"
    /\ error' = err
    /\ UNCHANGED <<exit_status, log_level, reprov_calls, reprov_result>>

Proceed(ev, to) ==
    /\ pc' = to
    /\ log' = Append(log, ev)
    /\ UNCHANGED endVars

\* Phase whose failure is recorded but does not end run()
Phase_ContinuesOnError(from, ev, to, err) ==
    /\ pc = from
    /\ \/ Proceed(ev, to)
       \/ /\ pc' = to
          /\ error' = err
          /\ UNCHANGED <<log, outcome, exit_status, log_level, reprov_calls,
                         reprov_result>>

\* a fallible phase: `?` on its Result
Phase(from, ev, to, err) ==
    /\ pc = from
    /\ \/ Proceed(ev, to)
       \/ Return(err) /\ UNCHANGED log

LoadSettings ==
    /\ Phase("settings", "settings", "create_cache_dir", "settings_err")
    /\ UNCHANGED <<gc_config, gcVars, stop_all_failed, taskVars, sigVars, raceVars,
                   stopVars, drainVars>>

CreateCacheDir ==
    /\ Phase("create_cache_dir", "create_cache_dir", "create_mnt_dir",
             "Failed to create cache directory")
    /\ UNCHANGED <<gc_config, gcVars, stop_all_failed, taskVars, sigVars, raceVars,
                   stopVars, drainVars>>

CreateMntDir ==
    /\ Phase("create_mnt_dir", "create_mnt_dir", "create_gc_dir",
             "Failed to create mnt directory")
    /\ UNCHANGED <<gc_config, gcVars, stop_all_failed, taskVars, sigVars, raceVars,
                   stopVars, drainVars>>

CreateGcDir ==
    /\ Phase("create_gc_dir", "create_gc_dir", "identity_client",
             "Failed to create gc directory")
    /\ UNCHANGED <<gc_config, gcVars, stop_all_failed, taskVars, sigVars, raceVars,
                   stopVars, drainVars>>

IdentityClient ==
    /\ Phase("identity_client", "identity_client", "get_device_info",
             "identity_client")
    /\ UNCHANGED <<gc_config, gcVars, stop_all_failed, taskVars, sigVars, raceVars,
                   stopVars, drainVars>>

\* GetDeviceInfo going on to the GC store without the validation of the GC policy
GetDeviceInfo_SkipsValidation ==
    /\ Phase("get_device_info", "get_device_info", "image_prune_data",
             "get_device_info")
    /\ UNCHANGED <<gc_config, gcVars, stop_all_failed, taskVars, sigVars, raceVars,
                   stopVars, drainVars>>

\* lines 93-98
GetDeviceInfo ==
    /\ Phase("get_device_info", "get_device_info", "check_settings",
             "get_device_info")
    /\ UNCHANGED <<gc_config, gcVars, stop_all_failed, taskVars, sigVars, raceVars,
                   stopVars, drainVars>>

\* CheckSettings that goes on whatever the validator returned
CheckSettings_IgnoresResult ==
    /\ pc = "check_settings"
    /\ check_result' = Some(check_settings_and_populate(gc_settings))
    /\ log' = Append(log, "check_settings")
    /\ pc' = "image_prune_data"
    /\ UNCHANGED <<gc_config, store_settings, loop_settings, stop_all_failed, taskVars,
                   sigVars, raceVars, stopVars, drainVars, endVars>>

\* lines 110-121: validate gc_settings; on Err the process exits at once
CheckSettings ==
    /\ pc = "check_settings"
    /\ LET result == check_settings_and_populate(gc_settings)
       IN  /\ check_result' = Some(result)
           /\ log' = Append(log, "check_settings")
           /\ IF ~ result.ok
              THEN /\ pc' = "exited"
                   /\ exit_status' = "CONFIG"
              ELSE /\ pc' = "image_prune_data"
                   /\ UNCHANGED exit_status
    /\ UNCHANGED <<gc_config, store_settings, loop_settings, stop_all_failed, taskVars,
                   sigVars, raceVars, stopVars, drainVars, reprov_calls, reprov_result, outcome,
                   error, log_level>>

\* NewImagePruneData given the settings the validator returned
NewImagePruneData_UsesValidated ==
    /\ pc = "image_prune_data"
    /\ \/ Proceed("image_prune_data", "make_runtime")
          /\ store_settings' = Some(unwrap(check_result).value)
       \/ Return("Failed to set up image garbage collection")
          /\ UNCHANGED <<log, store_settings>>
    /\ UNCHANGED <<gc_config, check_result, loop_settings, stop_all_failed, taskVars,
                   sigVars, raceVars, stopVars, drainVars>>

\* lines 123-124: ImagePruneData::new(&gc_dir, gc_settings.clone())
NewImagePruneData ==
    /\ pc = "image_prune_data"
    /\ \/ Proceed("image_prune_data", "make_runtime")
          /\ store_settings' = Some(gc_settings)
       \/ Return("Failed to set up image garbage collection")
          /\ UNCHANGED <<log, store_settings>>
    /\ UNCHANGED <<gc_config, check_result, loop_settings, stop_all_failed, taskVars,
                   sigVars, raceVars, stopVars, drainVars>>

\* MakeRuntime with the task counter counting one API task only
MakeRuntime_OneTask ==
    /\ pc = "make_runtime"
    /\ \/ /\ pc' = "workload_start"
          /\ log' = log \o <<"make_runtime", "tasks_init">>
          /\ tasks' = INITIAL_TASKS - 1
          /\ rx_alive' = TRUE
          /\ UNCHANGED endVars
       \/ Return("Failed to initialize module runtime")
          /\ UNCHANGED <<log, tasks, rx_alive>>
    /\ UNCHANGED <<gc_config, gcVars, stop_all_failed, workload, management, sigVars,
                   watchdog, image_gc, gc_steps, winner, shutdown_reason, stopVars,
                   drainVars>>

\* lines 126-140: make_runtime, then the watchdog channel and the task counter
MakeRuntime ==
    /\ pc = "make_runtime"
    /\ \/ /\ pc' = "workload_start"
          /\ log' = log \o <<"make_runtime", "tasks_init">>
          /\ tasks' = INITIAL_TASKS
          /\ rx_alive' = TRUE
          /\ UNCHANGED endVars
       \/ Return("Failed to initialize module runtime")
          /\ UNCHANGED <<log, tasks, rx_alive>>
    /\ UNCHANGED <<gc_config, gcVars, stop_all_failed, workload, management, sigVars,
                   watchdog, image_gc, gc_steps, winner, shutdown_reason, stopVars,
                   drainVars>>

\* WorkloadStart going on to the cache update, without the stop of stale modules
WorkloadStart_SkipsStopAll ==
    /\ pc = "workload_start"
    /\ \/ Proceed("workload_start", "update_device_cache")
          /\ workload' = "started"
          /\ UNCHANGED rx_alive
       \/ Return("workload_start")
          /\ rx_alive' = FALSE
          /\ UNCHANGED <<log, workload>>
    /\ UNCHANGED <<gc_config, gcVars, stop_all_failed, tasks, management, sigVars,
                   watchdog, image_gc, gc_steps, winner, shutdown_reason, stopVars,
                   drainVars>>

\* lines 143-151: WorkloadManager::start
WorkloadStart ==
    /\ pc = "workload_start"
    /\ \/ Proceed("workload_start", "stop_all")
          /\ workload' = "started"
          /\ UNCHANGED rx_alive
       \/ Return("workload_start")
          /\ rx_alive' = FALSE
          /\ UNCHANGED <<log, workload>>
    /\ UNCHANGED <<gc_config, gcVars, stop_all_failed, tasks, management, sigVars,
                   watchdog, image_gc, gc_steps, winner, shutdown_reason, stopVars,
                   drainVars>>

\* StopAll with `?` on the Result of stop_all
StopAll_Propagates ==
    /\ pc = "stop_all"
    /\ \/ Proceed("stop_all", "update_device_cache")
          /\ stop_all_failed' = FALSE
          /\ UNCHANGED rx_alive
       \/ Return("Failed to stop modules on startup")
          /\ stop_all_failed' = TRUE
          /\ rx_alive' = FALSE
          /\ UNCHANGED log
    /\ UNCHANGED <<gc_config, gcVars, taskVars, sigVars, watchdog, image_gc, gc_steps,
                   winner, shutdown_reason, stopVars, drainVars>>

\* lines 160-168: runtime.stop_all; an Err is only logged
StopAll ==
    /\ pc = "stop_all"
    /\ Proceed("stop_all", "update_device_cache")
    /\ stop_all_failed' \in BOOLEAN
    /\ UNCHANGED <<gc_config, gcVars, taskVars, sigVars, raceVars, stopVars, drainVars>>

\* line 170
UpdateDeviceCache ==
    /\ pc = "update_device_cache"
    /\ \/ Proceed("update_device_cache", "management_start")
          /\ UNCHANGED rx_alive
       \/ Return("update_device_cache")
          /\ rx_alive' = FALSE
          /\ UNCHANGED log
    /\ UNCHANGED <<gc_config, gcVars, stop_all_failed, taskVars, sigVars, watchdog,
                   image_gc, gc_steps, winner, shutdown_reason, stopVars, drainVars>>

\* lines 179-185: management::start
ManagementStart ==
    /\ pc = "management_start"
    /\ \/ Proceed("management_start", "workload_server")
          /\ management' = "running"
          /\ UNCHANGED rx_alive
       \/ Return("management_start")
          /\ rx_alive' = FALSE
          /\ UNCHANGED <<log, management>>
    /\ UNCHANGED <<gc_config, gcVars, stop_all_failed, tasks, workload, sigVars,
                   watchdog, image_gc, gc_steps, winner, shutdown_reason, stopVars,
                   drainVars>>

\* line 187: workload_manager::server
WorkloadServer ==
    /\ pc = "workload_server"
    /\ workload = "started"
    /\ \/ Proceed("workload_server", "set_signal_handlers")
          /\ workload' = "running"
          /\ UNCHANGED rx_alive
       \/ Return("workload_server")
          /\ rx_alive' = FALSE
          /\ UNCHANGED <<log, workload>>
    /\ UNCHANGED <<gc_config, gcVars, stop_all_failed, tasks, management, sigVars,
                   watchdog, image_gc, gc_steps, winner, shutdown_reason, stopVars,
                   drainVars>>

(***************************************************************************)
(* Signal bridge: set_signal_handlers spawns two listener tasks.  Each     *)
(* waits for its signal, sends one Signal action and ends; the Result of   *)
(* the send is ignored.                                                    *)
(***************************************************************************)
SetSignalHandlers ==
    /\ pc = "set_signal_handlers"
    /\ Proceed("set_signal_handlers", "check_gc_enabled")
    /\ sigint' = "listening"
    /\ sigterm' = "listening"
    /\ UNCHANGED <<gc_config, gcVars, stop_all_failed, taskVars, wd_queue, raceVars,
                   stopVars, drainVars>>

\* the result of UnboundedSender::send: Ok while the receiver exists
send_signal(listener) == IF rx_alive THEN "sent" ELSE "send_failed"

Running == pc \notin {"exited", "panicked"}

\* SigintListener that waits for the next signal after sending
SigintListener_KeepsListening ==
    /\ Running
    /\ sigint = "listening"
    /\ wd_queue' = IF rx_alive THEN wd_queue + 1 ELSE wd_queue
    /\ UNCHANGED <<pc, gc_config, gcVars, log, stop_all_failed, taskVars, sigint,
                   sigterm, raceVars, stopVars, drainVars, endVars>>

\* lines 284-292
SigintListener ==
    /\ Running
    /\ sigint = "listening"
    /\ sigint' = send_signal("sigint")
    /\ wd_queue' = IF rx_alive THEN wd_queue + 1 ELSE wd_queue
    /\ UNCHANGED <<pc, gc_config, gcVars, log, stop_all_failed, taskVars, sigterm,
                   raceVars, stopVars, drainVars, endVars>>

SigtermListener ==
    /\ Running
    /\ sigterm = "listening"
    /\ sigterm' = send_signal("sigterm")
    /\ wd_queue' = IF rx_alive THEN wd_queue + 1 ELSE wd_queue
    /\ UNCHANGED <<pc, gc_config, gcVars, log, stop_all_failed, taskVars, sigint,
                   raceVars, stopVars, drainVars, endVars>>

(***************************************************************************)
(* The API tasks.  Each holds the receiver of its shutdown trigger and     *)
(* decrements the task counter once, when it terminates, which it may do   *)
(* before or after the trigger is sent, or never.                          *)
(***************************************************************************)
WorkloadTerminate ==
    /\ Running
    /\ workload = "running"
    /\ workload' = "terminated"
    /\ tasks' = tasks - 1
    /\ UNCHANGED <<pc, gc_config, gcVars, log, stop_all_failed, management, sigVars,
                   raceVars, stopVars, drainVars, endVars>>

ManagementTerminate ==
    /\ Running
    /\ management = "running"
    /\ management' = "terminated"
    /\ tasks' = tasks - 1
    /\ UNCHANGED <<pc, gc_config, gcVars, log, stop_all_failed, workload, sigVars,
                   raceVars, stopVars, drainVars, endVars>>

(***************************************************************************)
(* Steady state.  The watchdog and the maintenance loop are futures: they  *)
(* make progress only while run() awaits them, and dropping them cancels   *)
(* them.                                                                   *)
(***************************************************************************)
\* CheckGcEnabled that builds the maintenance loop whatever `enabled` says
CheckGcEnabled_IgnoresFlag ==
    /\ pc = "check_gc_enabled"
    /\ pc' = "select"
    /\ image_gc' = "pending"
    /\ loop_settings' = Some(gc_settings)
    /\ watchdog' = "pending"
    /\ log' = Append(log, "steady_state")
    /\ UNCHANGED <<gc_config, check_result, store_settings, stop_all_failed, taskVars,
                   sigVars, rx_alive, gc_steps, winner, shutdown_reason, stopVars,
                   drainVars, endVars>>

\* lines 194-209 and 222-229: build the futures
CheckGcEnabled ==
    /\ pc = "check_gc_enabled"
    /\ IF gc_settings.enabled
       THEN /\ pc' = "select"
            /\ image_gc' = "pending"
            /\ loop_settings' = Some(gc_settings)
       ELSE /\ pc' = "await_watchdog"
            /\ UNCHANGED <<image_gc, loop_settings>>
    /\ watchdog' = "pending"
    /\ log' = Append(log, "steady_state")
    /\ UNCHANGED <<gc_config, check_result, store_settings, stop_all_failed, taskVars,
                   sigVars, rx_alive, gc_steps, winner, shutdown_reason, stopVars,
                   drainVars, endVars>>

\* watchdog::run_until_shutdown ends once, with an action or an error: the future
\* returns Ready at its next poll.  When both futures are ready, tokio::select!
\* takes either branch (SelectWatchdog or SelectImageGc)
WatchdogFinish ==
    /\ pc \in {"select", "await_watchdog"}
    /\ watchdog = "pending"
    /\ watchdog' \in WatchdogAction \cup {"Err"}
    /\ UNCHANGED <<pc, gc_config, gcVars, log, stop_all_failed, taskVars, sigVars,
                   rx_alive, image_gc, gc_steps, winner, shutdown_reason, stopVars,
                   drainVars, endVars>>

\* image_gc::image_garbage_collect at work
ImageGcStep ==
    /\ Running
    /\ image_gc = "pending"
    /\ gc_steps < MaxGcSteps
    /\ gc_steps' = gc_steps + 1
    /\ UNCHANGED <<pc, gc_config, gcVars, log, stop_all_failed, taskVars, sigVars,
                   rx_alive, watchdog, image_gc, winner, shutdown_reason, stopVars,
                   drainVars, endVars>>

\* image_gc::image_garbage_collect ends, with Ok(()) or with an error: the future
\* returns Ready at its next poll, which only SelectImageGc performs
ImageGcFinish ==
    /\ Running
    /\ image_gc = "pending"
    /\ image_gc' \in {"Ok", "Err"}
    /\ UNCHANGED <<pc, gc_config, gcVars, log, stop_all_failed, taskVars, sigVars,
                   rx_alive, watchdog, gc_steps, winner, shutdown_reason, stopVars,
                   drainVars, endVars>>

\* SelectWatchdog with the maintenance loop left running (as a spawned task would be)
SelectWatchdog_NoCancel ==
    /\ pc = "select"
    /\ watchdog \in WatchdogAction \cup {"Err"}
    /\ winner' = "watchdog"
    /\ rx_alive' = FALSE
    /\ IF watchdog = "Err"
       THEN /\ Return("watchdog")
            /\ UNCHANGED shutdown_reason
       ELSE /\ shutdown_reason' = Some(watchdog)
            /\ pc' = "stop_management"
            /\ UNCHANGED endVars
    /\ UNCHANGED <<gc_config, gcVars, log, stop_all_failed, taskVars, sigVars, watchdog,
                   image_gc, gc_steps, stopVars, drainVars>>

\* lines 212-215: the watchdog branch of tokio::select! completes
SelectWatchdog ==
    /\ pc = "select"
    /\ watchdog \in WatchdogAction \cup {"Err"}
    /\ winner' = "watchdog"
    /\ image_gc' = "dropped"
    /\ rx_alive' = FALSE
    /\ IF watchdog = "Err"
       THEN /\ Return("watchdog")
            /\ UNCHANGED shutdown_reason
       ELSE /\ shutdown_reason' = Some(watchdog)
            /\ pc' = "stop_management"
            /\ UNCHANGED endVars
    /\ UNCHANGED <<gc_config, gcVars, log, stop_all_failed, taskVars, sigVars, watchdog,
                   gc_steps, stopVars, drainVars>>

\* SelectImageGc that sends the Management stop trigger before it returns the error
SelectImageGc_StopsManagement ==
    /\ pc = "select"
    /\ image_gc \in {"Ok", "Err"}
    /\ winner' = "image_gc"
    /\ rx_alive' = FALSE
    /\ mgmt_sent' = IF management = "running" THEN mgmt_sent + 1 ELSE mgmt_sent
    /\ IF image_gc = "Err"
       THEN Return("image_gc")
       ELSE Return("image garbage collection unexpectedly stopped")
    /\ UNCHANGED <<gc_config, gcVars, log, stop_all_failed, taskVars, sigVars, watchdog,
                   image_gc, gc_steps, shutdown_reason, wl_sent, drainVars>>

\* SelectImageGc where a maintenance loop that ends with Ok(()) counts as a shutdown
SelectImageGc_OkShutsDown ==
    /\ pc = "select"
    /\ image_gc \in {"Ok", "Err"}
    /\ winner' = "image_gc"
    /\ rx_alive' = FALSE
    /\ IF image_gc = "Err"
       THEN /\ Return("image_gc")
            /\ UNCHANGED shutdown_reason
       ELSE /\ shutdown_reason' = Some("Signal")
            /\ pc' = "stop_management"
            /\ UNCHANGED endVars
    /\ UNCHANGED <<gc_config, gcVars, log, stop_all_failed, taskVars, sigVars, watchdog,
                   image_gc, gc_steps, stopVars, drainVars>>

\* lines 216-220: the image_gc branch of tokio::select! completes
SelectImageGc ==
    /\ pc = "select"
    /\ image_gc \in {"Ok", "Err"}
    /\ winner' = "image_gc"
    /\ rx_alive' = FALSE
    /\ IF image_gc = "Err"
       THEN Return("image_gc")
       ELSE Return("image garbage collection unexpectedly stopped")
    /\ UNCHANGED <<gc_config, gcVars, log, stop_all_failed, taskVars, sigVars, watchdog,
                   image_gc, gc_steps, shutdown_reason, stopVars, drainVars>>

\* lines 223-230: GC disabled, only the watchdog is awaited
AwaitWatchdog ==
    /\ pc = "await_watchdog"
    /\ watchdog \in WatchdogAction \cup {"Err"}
    /\ rx_alive' = FALSE
    /\ IF watchdog = "Err"
       THEN /\ Return("watchdog")
            /\ UNCHANGED shutdown_reason
       ELSE /\ shutdown_reason' = Some(watchdog)
            /\ pc' = "stop_management"
            /\ UNCHANGED endVars
    /\ UNCHANGED <<gc_config, gcVars, log, stop_all_failed, taskVars, sigVars, watchdog,
                   image_gc, gc_steps, winner, stopVars, drainVars>>

(***************************************************************************)
(* Shutdown.                                                               *)
(***************************************************************************)
\* .expect(..) on the Result of a oneshot send: a dropped receiver panics
Panic ==
    /\ pc' = "panicked"
    /\ outcome' = "Panic"
    /\ exit_status' = "panic"
    /\ UNCHANGED <<error, log_level, reprov_calls, reprov_result>>

\* lines 233-236
StopManagement ==
    /\ pc = "stop_management"
    /\ IF management = "running"
       THEN /\ mgmt_sent' = mgmt_sent + 1
            /\ Proceed("stop_management", "stop_workload")
       ELSE /\ Panic
            /\ UNCHANGED <<mgmt_sent, log>>
    /\ UNCHANGED <<gc_config, gcVars, stop_all_failed, taskVars, sigVars, raceVars,
                   wl_sent, drainVars>>

\* StopWorkload that goes on to the drain loop without sending the trigger
StopWorkload_NoSend ==
    /\ pc = "stop_workload"
    /\ Proceed("stop_workload", "drain_poll")
    /\ UNCHANGED <<gc_config, gcVars, stop_all_failed, taskVars, sigVars, raceVars,
                   stopVars, drainVars>>

\* lines 238-246
StopWorkload ==
    /\ pc = "stop_workload"
    /\ IF workload = "running"
       THEN /\ wl_sent' = wl_sent + 1
            /\ Proceed("stop_workload", "drain_poll")
       ELSE /\ Panic
            /\ UNCHANGED <<wl_sent, log>>
    /\ UNCHANGED <<gc_config, gcVars, stop_all_failed, taskVars, sigVars, raceVars,
                   mgmt_sent, drainVars>>

\* timed_out with the comparison off by one
timed_out_strict(w) == w > shutdown_timeout

\* line 255
timed_out(w) == w >= shutdown_timeout

\* lines 249-259: one poll of the task counter
DrainPoll ==
    /\ pc = "drain_poll"
    /\ log' = IF Happened("first_poll") THEN log ELSE Append(log, "first_poll")
    /\ IF tasks = 0
       THEN /\ pc' = "decide"
            /\ UNCHANGED warned
       ELSE IF timed_out(wait_time)
       THEN /\ warned' = Some(tasks)
            /\ pc' = "decide"
       ELSE /\ pc' = "drain_sleep"
            /\ UNCHANGED warned
    /\ UNCHANGED <<gc_config, gcVars, stop_all_failed, taskVars, sigVars, raceVars,
                   stopVars, wait_time, sleeps, endVars>>

\* lines 261-262
DrainSleep ==
    /\ pc = "drain_sleep"
    /\ sleeps' = sleeps + 1
    /\ wait_time' = wait_time + poll_period
    /\ pc' = "drain_poll"
    /\ UNCHANGED <<gc_config, gcVars, log, stop_all_failed, taskVars, sigVars, raceVars,
                   stopVars, warned, endVars>>

\* Decide without the Reprovision branch
Decide_NeverReprovisions ==
    /\ pc = "decide"
    /\ pc' = "done"
    /\ log' = log \o <<"drain_end", "return">>
    /\ outcome' = "Ok"
    /\ UNCHANGED <<reprov_calls, reprov_result, error>>
    /\ UNCHANGED <<gc_config, gcVars, stop_all_failed, taskVars, sigVars, raceVars,
                   stopVars, drainVars, exit_status, log_level>>

\* lines 265-275
Decide ==
    /\ pc = "decide"
    /\ pc' = "done"
    /\ IF shutdown_reason = Some("Reprovision")
       THEN /\ reprov_calls' = reprov_calls + 1
            /\ log' = log \o <<"drain_end", "reprovision", "return">>
            /\ outcome' = "Err"
            /\ reprov_result' \in {"Ok", "Err"}
            /\ error' = IF reprov_result' = "Ok"
                        THEN "reprovisioned" ELSE "Failed to reprovision"
       ELSE /\ log' = log \o <<"drain_end", "return">>
            /\ outcome' = "Ok"
            /\ UNCHANGED <<reprov_calls, reprov_result, error>>
    /\ UNCHANGED <<gc_config, gcVars, stop_all_failed, taskVars, sigVars, raceVars,
                   stopVars, drainVars, exit_status, log_level>>

(***************************************************************************)
(* main(): lines 42-50.                                                    *)
(***************************************************************************)
\* EdgedError::exit_code
exit_code(err) ==
    CASE err = "reprovisioned" -> "reprovisioned"
      [] err = "settings_err" -> "CONFIG"
      [] OTHER -> "failure"

MainExit ==
    /\ pc = "done"
    /\ pc' = "exited"
    /\ IF outcome = "Err"
       THEN /\ log_level' = IF exit_code(error) = exit_code("reprovisioned")
                            THEN "info" ELSE "error"
            /\ exit_status' = exit_code(error)
       ELSE /\ exit_status' = "success"
            /\ UNCHANGED log_level
    /\ UNCHANGED <<gc_config, gcVars, log, stop_all_failed, taskVars, sigVars, raceVars,
                   stopVars, drainVars, reprov_calls, reprov_result, outcome, error>>

Next ==
    \/ LoadSettings \/ CreateCacheDir \/ CreateMntDir \/ CreateGcDir
    \/ IdentityClient \/ GetDeviceInfo \/ CheckSettings \/ NewImagePruneData
    \/ MakeRuntime \/ WorkloadStart \/ StopAll \/ UpdateDeviceCache
    \/ ManagementStart \/ WorkloadServer \/ SetSignalHandlers
    \/ SigintListener \/ SigtermListener
    \/ WorkloadTerminate \/ ManagementTerminate
    \/ CheckGcEnabled \/ WatchdogFinish \/ ImageGcStep \/ ImageGcFinish
    \/ SelectWatchdog \/ SelectImageGc \/ AwaitWatchdog
    \/ StopManagement \/ StopWorkload \/ DrainPoll \/ DrainSleep \/ Decide
    \/ MainExit

Spec == Init /\ [][Next]_vars

(***************************************************************************)
(* The validator on its own: run() has reached line 118 with some          *)
(* [image_garbage_collection] section, and validates it.                   *)
(***************************************************************************)
ValInit ==
    /\ pc = "check_settings"
    /\ \E r \in OptionOf(RecurrenceInputs), a \in OptionOf(MinAgeInputs),
          c \in OptionOf(CleanupTimeInputs), e \in BOOLEAN :
            gc_config = Some(ImagePruneSettings(r, a, c, e))
    /\ log = <<"settings", "create_cache_dir", "create_mnt_dir", "create_gc_dir",
               "identity_client", "get_device_info">>
    /\ Fresh

ValNext == CheckSettings

ValSpec == ValInit /\ [][ValNext]_vars

\* the orchestrator task is scheduled: a poll or a sleep that can run does run
FairSpec == Spec /\ WF_vars(DrainPoll) /\ WF_vars(DrainSleep)

TypeOK ==
    /\ tasks \in 0..INITIAL_TASKS
    /\ wait_time \in 0..shutdown_timeout
    /\ outcome \in {"none", "Ok", "Err", "Panic"}

Returned == pc \in {"done", "exited"} /\ outcome \in {"Ok", "Err"}

GcErrors == {"image_gc", "image garbage collection unexpectedly stopped"}

(***************************************************************************)
(* C1.  With GC enabled, whenever the image_gc branch of the select        *)
(* completes (the loop ended with Ok or with Err), run() has returned a    *)
(* fatal error: no shutdown reason is taken from the watchdog, the outcome *)
(* is neither Ok nor "reprovisioned", and the exit status is the generic   *)
(* failure, also when the watchdog was ready with Signal or Reprovision.   *)
(***************************************************************************)
C1_ImageGcStopIsFatal ==
    winner = "image_gc" =>
        /\ gc_settings.enabled
        /\ pc \in {"done", "exited"}
        /\ outcome = "Err"
        /\ error \in GcErrors
        /\ (image_gc = "Ok" => error = "image garbage collection unexpectedly stopped")
        /\ shutdown_reason = None
        /\ reprov_calls = 0
        /\ exit_status \in {"running", "failure"}
        /\ (pc = "exited" => exit_status = "failure" /\ log_level = "error")

C1_Witness ==
    /\ winner = "image_gc"
    /\ image_gc = "Ok"
    /\ watchdog \in {"Signal", "Reprovision"}
    /\ pc = "exited"

(***************************************************************************)
(* C2.  With GC enabled, when the watchdog branch of the select completes  *)
(* with a WatchdogAction, the shutdown reason is that action and stays     *)
(* that action, the maintenance loop is dropped and takes no step from     *)
(* then on, and run() never returns one of the image-GC errors.            *)
(***************************************************************************)
C2_WatchdogWinsState ==
    (winner = "watchdog" /\ watchdog \in WatchdogAction) =>
        /\ shutdown_reason = Some(watchdog)
        /\ image_gc = "dropped"
        /\ error \notin GcErrors

C2_WatchdogWinsStep ==
    winner = "watchdog" =>
        /\ gc_steps' = gc_steps
        /\ image_gc' = image_gc
        /\ shutdown_reason' = shutdown_reason

C2_WatchdogWins == []C2_WatchdogWinsState /\ [][C2_WatchdogWinsStep]_vars

C2_Witness ==
    /\ winner = "watchdog"
    /\ shutdown_reason = Some("Reprovision")
    /\ gc_steps > 0
    /\ pc = "exited"

(***************************************************************************)
(* C3.  The drain loop terminates whatever the API tasks do: it sleeps at  *)
(* most shutdown_timeout / poll_period = 100 times, wait_time is the time  *)
(* slept and never exceeds the budget, a poll that reads 0 leaves the loop *)
(* without a warning, the warning is given only by a poll that reads a     *)
(* non-zero counter once wait_time has reached the budget, and a loop that *)
(* has been entered is left.                                               *)
(***************************************************************************)
C3_DrainState ==
    /\ sleeps <= 100
    /\ wait_time = sleeps * poll_period
    /\ wait_time <= shutdown_timeout
    /\ (is_some(warned) => unwrap(warned) > 0 /\ wait_time = shutdown_timeout)

C3_DrainStep ==
    /\ (pc = "drain_poll" /\ pc' # pc /\ tasks = 0) => (pc' = "decide" /\ warned' = None)
    /\ (pc = "drain_poll" /\ pc' = "drain_sleep") =>
            (tasks # 0 /\ wait_time < shutdown_timeout)
    /\ warned' # warned =>
            (pc = "drain_poll" /\ tasks # 0 /\ wait_time >= shutdown_timeout
             /\ warned' = Some(tasks) /\ pc' = "decide")

C3_DrainTerminates ==
    /\ []C3_DrainState
    /\ [][C3_DrainStep]_vars
    /\ (pc \in {"drain_poll", "drain_sleep"} ~> pc = "decide")

\* the counter was never decremented and the loop ended on the timeout
C3_Witness ==
    /\ pc = "decide"
    /\ tasks = INITIAL_TASKS
    /\ warned = Some(INITIAL_TASKS)
    /\ sleeps = 100

Precedes(a, b) == Happened(b) => (Happened(a) /\ Index(a) < Index(b))

C5_Original ==
    /\ Precedes("stop_all", "update_device_cache")
    /\ Precedes("update_device_cache", "workload_start")
    /\ Precedes("update_device_cache", "management_start")
    /\ Precedes("workload_start", "set_signal_handlers")
    /\ Precedes("management_start", "set_signal_handlers")
    /\ Precedes("set_signal_handlers", "steady_state")
    /\ (workload # "unstarted" => Happened("stop_all"))
    /\ (management # "unstarted" => Happened("stop_all"))

(***************************************************************************)
(* C5 (amended).  The Workload subsystem is started (WorkloadManager::     *)
(* start) before stop_all; stop_all happens before the cache update, which *)
(* happens before the Management subsystem is started, which happens       *)
(* before the Workload serve setup, which happens before the signal        *)
(* listeners are installed, which happens before the steady-state race     *)
(* begins.  Management is never started, and the Workload API never        *)
(* serves, before stop_all has completed.                                  *)
(***************************************************************************)
C5_StartupOrder ==
    /\ Precedes("workload_start", "stop_all")
    /\ Precedes("stop_all", "update_device_cache")
    /\ Precedes("update_device_cache", "management_start")
    /\ Precedes("management_start", "workload_server")
    /\ Precedes("workload_server", "set_signal_handlers")
    /\ Precedes("set_signal_handlers", "steady_state")
    /\ (workload # "unstarted" <=> Happened("workload_start"))
    /\ (management # "unstarted" => Happened("stop_all"))
    /\ (workload \in {"running", "terminated"} => Happened("stop_all"))
    /\ (sigint # "absent" \/ sigterm # "absent" => Happened("workload_server"))
    /\ (watchdog # "none" \/ image_gc # "none" => Happened("set_signal_handlers"))

C5_Witness ==
    /\ Happened("steady_state")
    /\ pc = "select"
    /\ image_gc = "pending"

(***************************************************************************)
(* C6.  In a run that returns Ok or "reprovisioned", the stop trigger was  *)
(* sent to Management and then to Workload, once each, both before the     *)
(* first poll of the task counter; reprovision() and the return come after *)
(* the drain loop has ended.  No trigger is ever sent twice, and no poll   *)
(* happens before both are sent.                                           *)
(***************************************************************************)
CleanReturn == Returned /\ (outcome = "Ok" \/ error = "reprovisioned")

C6_ShutdownOrder ==
    /\ mgmt_sent <= 1
    /\ wl_sent <= 1
    /\ (wl_sent = 1 => mgmt_sent = 1)
    /\ (Happened("first_poll") \/ pc \in {"drain_poll", "drain_sleep", "decide"}) =>
            (mgmt_sent = 1 /\ wl_sent = 1)
    /\ (reprov_calls > 0 => Happened("first_poll") /\ Happened("drain_end"))
    /\ CleanReturn =>
          /\ mgmt_sent = 1
          /\ wl_sent = 1
          /\ Count("stop_management") = 1
          /\ Count("stop_workload") = 1
          /\ Happened("stop_management")
          /\ Precedes("stop_management", "stop_workload")
          /\ Precedes("stop_workload", "first_poll")
          /\ Precedes("first_poll", "drain_end")
          /\ Precedes("drain_end", "reprovision")
          /\ Precedes("drain_end", "return")
          /\ Happened("return")
          /\ (error = "reprovisioned" => Precedes("reprovision", "return"))
          /\ (outcome = "Ok" => ~ Happened("reprovision"))

C6_Witness ==
    /\ pc = "exited"
    /\ error = "reprovisioned"
    /\ sleeps > 0
    /\ tasks = 0

(***************************************************************************)
(* C7.  A shutdown-trigger send whose receiver has been dropped is         *)
(* non-fatal: the sequencer goes on to its next step (the other send, or   *)
(* the drain loop), and the process never ends in a panic.                 *)
(***************************************************************************)
C7_SendFailureStep ==
    /\ (pc = "stop_management" /\ management # "running" /\ pc' # pc) =>
            (pc' = "stop_workload" /\ outcome' = outcome)
    /\ (pc = "stop_workload" /\ workload # "running" /\ pc' # pc) =>
            (pc' = "drain_poll" /\ outcome' = outcome)
    /\ outcome' # "Panic"

C7_SendFailureNonFatal == [][C7_SendFailureStep]_vars

(***************************************************************************)
(* C8.  With GC disabled the maintenance loop is never built or run: the   *)
(* select is never entered, no settings are handed to the loop, it takes   *)
(* no step, and once the steady-state phase is over the watchdog's result  *)
(* alone is what ended it: its action is the shutdown reason, its error is *)
(* the error run() returns.  An image-GC error is never returned.          *)
(***************************************************************************)
SteadyStateOver ==
    Happened("steady_state") /\ pc \notin {"select", "await_watchdog"}

C8_GcDisabled ==
    ~ gc_settings.enabled =>
        /\ image_gc = "none"
        /\ loop_settings = None
        /\ gc_steps = 0
        /\ winner = "none"
        /\ pc # "select"
        /\ error \notin GcErrors
        /\ SteadyStateOver =>
              IF watchdog = "Err"
              THEN shutdown_reason = None /\ outcome = "Err" /\ error = "watchdog"
              ELSE watchdog \in WatchdogAction /\ shutdown_reason = Some(watchdog)

C8_Witness ==
    /\ ~ gc_settings.enabled
    /\ pc = "exited"
    /\ shutdown_reason = Some("Signal")
    /\ outcome = "Ok"

(***************************************************************************)
(* C9.  Validation fails for every cleanup_time that is present and is not *)
(* a strict two-digit HH:MM (HH in 00..23, MM in 00..59), and succeeds for *)
(* every strict one when the recurrence is valid or absent.                *)
(***************************************************************************)
StrictHHMM(s) ==
    /\ Len(s) = 5
    /\ s[1] \in Digits /\ s[2] \in Digits /\ s[3] = ":"
    /\ s[4] \in Digits /\ s[5] \in Digits
    /\ 10 * DigitVal(s[1]) + DigitVal(s[2]) <= 23
    /\ 10 * DigitVal(s[4]) + DigitVal(s[5]) <= 59

RecurrenceAccepted(settings) ==
    \/ settings.cleanup_recurrence = None
    \/ unwrap(settings.cleanup_recurrence) >= DAY

C9_CleanupTimeStrict ==
    (is_some(check_result) /\ is_some(gc_settings.cleanup_time)) =>
        LET ct == unwrap(gc_settings.cleanup_time)
            result == unwrap(check_result)
        IN  /\ ~ StrictHHMM(ct) => ~ result.ok
            /\ (StrictHHMM(ct) /\ RecurrenceAccepted(gc_settings)) => result.ok

(***************************************************************************)
(* C10.  Validation fails, with the recurrence error, for every recurrence *)
(* that is present and less than 24h; a recurrence of exactly 24h, of more *)
(* than 24h, or absent never causes the failure: the result is then Ok     *)
(* unless the cleanup time is what is rejected, and is Ok whenever the     *)
(* cleanup time is absent or a strict HH:MM.                               *)
(***************************************************************************)
C10_RecurrenceBoundary ==
    is_some(check_result) =>
        LET rec == gc_settings.cleanup_recurrence
            ct == gc_settings.cleanup_time
            result == unwrap(check_result)
        IN  /\ (is_some(rec) /\ unwrap(rec) < DAY) =>
                  /\ ~ result.ok
                  /\ result.err = "cleanup recurrence cannot be less than 1 day"
                  /\ pc = "exited" /\ exit_status = "CONFIG"
            /\ RecurrenceAccepted(gc_settings) =>
                  /\ (result.ok \/ result.err = "invalid cleanup time")
                  /\ (ct = None \/ StrictHHMM(unwrap(ct))) => result.ok

\* exactly 24h is accepted
C10_Witness ==
    /\ is_some(check_result)
    /\ gc_settings.cleanup_recurrence = Some(DAY)
    /\ unwrap(check_result).ok
    /\ pc = "image_prune_data"


(***************************************************************************)
(* C11.  When validation succeeds, every field of the returned settings is *)
(* present: the recurrence is the supplied one, or 24h when none was       *)
(* supplied; min_age is the supplied one as it is, or 7 days when none was *)
(* supplied; enabled is the input's flag.                                  *)
(***************************************************************************)
C11_PopulatedOutput ==
    (is_some(check_result) /\ unwrap(check_result).ok) =>
        LET in == gc_settings
            out == unwrap(check_result).value
        IN  /\ is_some(out.cleanup_recurrence)
            /\ is_some(out.image_age_cleanup_threshold)
            /\ is_some(out.cleanup_time)
            /\ out.cleanup_recurrence =
                  IF is_some(in.cleanup_recurrence)
                  THEN in.cleanup_recurrence ELSE Some(60 * 60 * 24)
            /\ out.image_age_cleanup_threshold =
                  IF is_some(in.image_age_cleanup_threshold)
                  THEN in.image_age_cleanup_threshold ELSE Some(60 * 60 * 24 * 7)
            /\ out.enabled = in.enabled

\* a supplied min_age of 0 is kept, an absent recurrence becomes 24h
C11_Witness ==
    /\ is_some(check_result)
    /\ unwrap(check_result).ok
    /\ gc_settings.cleanup_recurrence = None
    /\ gc_settings.image_age_cleanup_threshold = Some(0)
    /\ ~ gc_settings.enabled
    /\ unwrap(check_result).value.image_age_cleanup_threshold = Some(0)

(***************************************************************************)
(* C12 (as stated).  The phases run in the order Config Validator,         *)
(* Directory Bootstrap, Provisioning, Runtime Launcher, Task Tracker init, *)
(* Subsystem Starter, Signal Bridge, Steady-State Supervisor, Shutdown     *)
(* Sequencer: the GC policy is validated before any directory is created   *)
(* and before the identity is resolved.                                    *)
(***************************************************************************)
C12_Original ==
    /\ Precedes("check_settings", "create_cache_dir")
    /\ Precedes("check_settings", "create_mnt_dir")
    /\ Precedes("check_settings", "create_gc_dir")
    /\ Precedes("create_gc_dir", "get_device_info")
    /\ Precedes("check_settings", "get_device_info")
    /\ Precedes("get_device_info", "make_runtime")
    /\ Precedes("make_runtime", "tasks_init")
    /\ Precedes("tasks_init", "workload_start")
    /\ Precedes("workload_start", "set_signal_handlers")
    /\ Precedes("set_signal_handlers", "steady_state")
    /\ Precedes("steady_state", "stop_management")

(***************************************************************************)
(* C12 (amended).  The phases run in the order Directory Bootstrap,        *)
(* Provisioning (identity resolve), Config Validator, Runtime Launcher     *)
(* (GC store, then the runtime), Task Tracker init, Subsystem Starter,     *)
(* Signal Bridge, Steady-State Supervisor, Shutdown Sequencer: the GC      *)
(* policy is validated after the three directories are created and after   *)
(* the identity is resolved, and before the GC store and the runtime are   *)
(* built.                                                                  *)
(***************************************************************************)
C12_PhaseOrder ==
    /\ Precedes("create_cache_dir", "create_mnt_dir")
    /\ Precedes("create_mnt_dir", "create_gc_dir")
    /\ Precedes("create_gc_dir", "identity_client")
    /\ Precedes("identity_client", "get_device_info")
    /\ Precedes("get_device_info", "check_settings")
    /\ Precedes("check_settings", "image_prune_data")
    /\ Precedes("image_prune_data", "make_runtime")
    /\ Precedes("make_runtime", "tasks_init")
    /\ Precedes("tasks_init", "workload_start")
    /\ Precedes("workload_start", "management_start")
    /\ Precedes("management_start", "workload_server")
    /\ Precedes("workload_server", "set_signal_handlers")
    /\ Precedes("set_signal_handlers", "steady_state")
    /\ Precedes("steady_state", "stop_management")
    /\ (is_some(check_result) <=> Happened("check_settings"))
    /\ (is_some(store_settings) => (is_some(check_result) /\ unwrap(check_result).ok))

C12_Witness ==
    /\ Happened("stop_management")
    /\ pc = "stop_workload"

(***************************************************************************)
(* C13.  The task counter is set to 2 before either API subsystem is       *)
(* started and no step of the orchestrator writes it afterwards; with each *)
(* subsystem decrementing it once when it terminates, it is 2 minus the    *)
(* number of terminated subsystems, stays within 0..2 and never increases; *)
(* a poll of the drain loop made after both have terminated reads 0 and    *)
(* leaves the loop without the timeout warning.                            *)
(***************************************************************************)
Terminated == Cardinality({t \in {"workload", "management"} :
                              IF t = "workload" THEN workload = "terminated"
                                                ELSE management = "terminated"})

C13_CounterState ==
    /\ tasks \in 0..2
    /\ (workload # "unstarted" \/ management # "unstarted") => Happened("tasks_init")
    /\ Happened("tasks_init") => tasks = 2 - Terminated
    /\ ~ Happened("tasks_init") => tasks = 0

C13_CounterStep ==
    /\ Happened("tasks_init") => tasks' <= tasks
    /\ (pc' # pc /\ pc # "make_runtime") => tasks' = tasks
    /\ tasks' # tasks =>
          \/ (pc = "make_runtime" /\ tasks' = 2 /\ workload = "unstarted"
              /\ management = "unstarted")
          \/ (tasks' = tasks - 1 /\ Terminated' = Terminated + 1)
    /\ (pc = "drain_poll" /\ pc' # pc /\ Terminated = 2) =>
          (tasks = 0 /\ pc' = "decide" /\ warned' = None)

C13_TaskCounter == []C13_CounterState /\ [][C13_CounterStep]_vars

\* both subsystems terminated during the drain, which then ended without a warning
C13_Witness ==
    /\ pc = "decide"
    /\ Terminated = 2
    /\ tasks = 0
    /\ sleeps > 0
    /\ warned = None

(***************************************************************************)
(* C14.  Each signal listener posts at most one Signal action: the actions *)
(* posted are exactly those of the listeners that have received their      *)
(* signal while the receiver existed, nothing is posted while both still   *)
(* wait, a listener that has sent (or failed to send) never acts again,    *)
(* and a step of a listener, failed send included, changes nothing of the  *)
(* orchestrator: not its position, shutdown reason, outcome or error.      *)
(***************************************************************************)
Posted == Cardinality({l \in {"sigint", "sigterm"} :
                          IF l = "sigint" THEN sigint = "sent" ELSE sigterm = "sent"})

C14_SignalState ==
    /\ wd_queue = Posted
    /\ wd_queue <= 2
    /\ (sigint \in {"absent", "listening"} /\ sigterm \in {"absent", "listening"})
          => wd_queue = 0
    /\ (sigint # "absent" \/ sigterm # "absent") => Happened("set_signal_handlers")

ListenerStep(before, after) ==
    /\ before \in {"sent", "send_failed"} => after = before
    /\ after # before =>
          /\ before = IF after = "listening" THEN "absent" ELSE "listening"
          /\ after = "sent" => (rx_alive /\ wd_queue' = wd_queue + 1)
          /\ after = "send_failed" => (~ rx_alive /\ wd_queue' = wd_queue)
          /\ after \in {"sent", "send_failed"} =>
                /\ pc' = pc
                /\ outcome' = outcome
                /\ error' = error
                /\ shutdown_reason' = shutdown_reason
                /\ watchdog' = watchdog
                /\ exit_status' = exit_status

C14_SignalStep ==
    /\ ListenerStep(sigint, sigint')
    /\ ListenerStep(sigterm, sigterm')
    /\ wd_queue' # wd_queue => (sigint' # sigint \/ sigterm' # sigterm)

C14_SignalBridge == []C14_SignalState /\ [][C14_SignalStep]_vars

\* one listener posted its action, the other's send failed after the receiver was dropped
C14_Witness ==
    /\ sigint = "sent"
    /\ sigterm = "send_failed"
    /\ wd_queue = 1
    /\ pc = "exited"
    /\ outcome = "Ok"


(***************************************************************************)
(* C15.  What run() returns is a function of the steady-state result and   *)
(* of the result of reprovision() alone: it is the same whether stop_all   *)
(* failed at startup and whether the drain loop ended on a zero counter or *)
(* on the timeout, with whatever count outstanding.  A stop_all that       *)
(* failed is followed by the cache update like one that succeeded.         *)
(***************************************************************************)
\* the value returned for a steady-state result and a reprovision() result
Terminal(steady, reprov) ==
    CASE steady = "Reprovision" /\ reprov = "Ok" -> <<"Err", "reprovisioned">>
      [] steady = "Reprovision" /\ reprov = "Err" -> <<"Err", "Failed to reprovision">>
      [] steady \in {"Signal", "EdgeCaRenewal"} -> <<"Ok", "none">>
      [] steady = "watchdog Err" -> <<"Err", "watchdog">>
      [] steady = "image_gc Err" -> <<"Err", "image_gc">>
      [] steady = "image_gc Ok" ->
            <<"Err", "image garbage collection unexpectedly stopped">>

\* the result that ended the steady-state phase
SteadyResult ==
    IF winner = "image_gc"
    THEN (IF image_gc = "Err" THEN "image_gc Err" ELSE "image_gc Ok")
    ELSE (IF watchdog = "Err" THEN "watchdog Err" ELSE watchdog)

C15_OutcomeState ==
    (Returned /\ SteadyStateOver) =>
        /\ <<outcome, error>> = Terminal(SteadyResult, reprov_result)
        /\ (reprov_result # "none" <=> shutdown_reason = Some("Reprovision"))

C15_StopAllStep ==
    /\ (pc = "stop_all" /\ pc' # pc) =>
          (pc' = "update_device_cache" /\ outcome' = "none" /\ error' = "none")
    /\ stop_all_failed' # stop_all_failed => pc = "stop_all"
    /\ (pc \in {"drain_poll", "drain_sleep"} /\ pc' # pc) =>
          (pc' \in {"drain_poll", "drain_sleep", "decide"}
           /\ outcome' = "none" /\ error' = "none")

C15_BestEffortPaths == []C15_OutcomeState /\ [][C15_StopAllStep]_vars

\* stop_all failed and the drain timed out with both tasks outstanding: still Ok
C15_Witness ==
    /\ pc = "exited"
    /\ stop_all_failed
    /\ warned = Some(2)
    /\ shutdown_reason = Some("Signal")
    /\ outcome = "Ok"
    /\ exit_status = "success"

(***************************************************************************)
(* C16 (as stated).  When the steady-state phase ends with a fatal error   *)
(* (the maintenance loop stopped, or the watchdog returned an error), the  *)
(* stop trigger has been sent to Management and to Workload and the task   *)
(* counter has been polled by the time run() returns that error.           *)
(***************************************************************************)
SteadyStateErrors == GcErrors \cup {"watchdog"}

C16_Original ==
    (Returned /\ error \in SteadyStateErrors) =>
        /\ mgmt_sent = 1
        /\ wl_sent = 1
        /\ Precedes("stop_management", "stop_workload")
        /\ Happened("first_poll")

(***************************************************************************)
(* C16 (amended).  The Shutdown Sequencer runs only for a shutdown reason: *)
(* when the steady-state phase ends with a fatal error (the maintenance    *)
(* loop stopped, or the watchdog returned an error), run() returns that    *)
(* error at once; no stop trigger is sent to Management or Workload, the   *)
(* task counter is not polled and reprovision() is not called before the   *)
(* process ends with the fatal outcome.                                    *)
(***************************************************************************)
C16_FatalSkipsShutdown ==
    /\ (SteadyStateOver /\ shutdown_reason = None) =>
          /\ pc \in {"done", "exited"}
          /\ outcome = "Err"
          /\ error \in SteadyStateErrors
          /\ mgmt_sent = 0
          /\ wl_sent = 0
          /\ ~ Happened("stop_management")
          /\ ~ Happened("stop_workload")
          /\ ~ Happened("first_poll")
          /\ sleeps = 0
          /\ reprov_calls = 0
          /\ (pc = "exited" => exit_status = "failure")
    /\ error \in SteadyStateErrors => (SteadyStateOver /\ shutdown_reason = None)
    /\ (mgmt_sent > 0 \/ wl_sent > 0) => is_some(shutdown_reason)

\* the maintenance loop stopped while both API tasks were still running
C16_Witness ==
    /\ pc = "exited"
    /\ error = "image garbage collection unexpectedly stopped"
    /\ workload = "running"
    /\ management = "running"
    /\ tasks = 2
    /\ mgmt_sent = 0

(***************************************************************************)
(* C17.  A GC policy that fails validation ends the process at once with   *)
(* the configuration-error exit code, before anything else is built: the   *)
(* GC store and the runtime are not constructed, the task counter is not   *)
(* set, stop_all is not called, no API subsystem is started, no signal     *)
(* listener is installed and the steady-state phase is never entered.      *)
(***************************************************************************)
ValidationFailed == is_some(check_result) /\ ~ unwrap(check_result).ok

C17_ValidationFailureExits ==
    /\ ValidationFailed =>
          /\ pc = "exited"
          /\ exit_status = "CONFIG"
          /\ outcome = "none"
          /\ store_settings = None
          /\ loop_settings = None
          /\ ~ Happened("image_prune_data")
          /\ ~ Happened("make_runtime")
          /\ ~ Happened("tasks_init")
          /\ tasks = 0
          /\ ~ Happened("stop_all")
          /\ workload = "unstarted"
          /\ management = "unstarted"
          /\ sigint = "absent"
          /\ sigterm = "absent"
          /\ ~ Happened("steady_state")
          /\ watchdog = "none"
          /\ image_gc = "none"
          /\ log[Len(log)] = "check_settings"
    /\ (exit_status = "CONFIG" /\ Happened("check_settings")) => ValidationFailed

C17_Witness ==
    /\ ValidationFailed
    /\ pc = "exited"
    /\ exit_status = "CONFIG"
    /\ unwrap(check_result).err = "invalid cleanup time"

(***************************************************************************)
(* C18.  Every startup phase is executed at most once and never retried:   *)
(* when a phase fails, run() returns its error at once, so that the steps  *)
(* taken are exactly the phases before it and no later phase, steady-state *)
(* loop or shutdown step is taken; after run() has returned nothing more   *)
(* is executed but main's exit.  A Reprovision decision ends the run       *)
(* without a second identity resolve.                                      *)
(***************************************************************************)
StartupPhases ==
    <<"settings", "create_cache_dir", "create_mnt_dir", "create_gc_dir",
      "identity_client", "get_device_info", "check_settings", "image_prune_data",
      "make_runtime", "tasks_init", "workload_start", "stop_all",
      "update_device_cache", "management_start", "workload_server",
      "set_signal_handlers", "steady_state">>

\* the error each fallible startup phase returns, and the steps taken before it
StartupError ==
    [e \in {"settings_err", "Failed to create cache directory",
            "Failed to create mnt directory", "Failed to create gc directory",
            "identity_client", "get_device_info",
            "Failed to set up image garbage collection",
            "Failed to initialize module runtime", "workload_start",
            "update_device_cache", "management_start", "workload_server"} |->
        CASE e = "settings_err" -> 0
          [] e = "Failed to create cache directory" -> 1
          [] e = "Failed to create mnt directory" -> 2
          [] e = "Failed to create gc directory" -> 3
          [] e = "identity_client" -> 4
          [] e = "get_device_info" -> 5
          [] e = "Failed to set up image garbage collection" -> 7
          [] e = "Failed to initialize module runtime" -> 8
          [] e = "workload_start" -> 10
          [] e = "update_device_cache" -> 12
          [] e = "management_start" -> 13
          [] e = "workload_server" -> 14]

C18_PhaseState ==
    /\ \A i \in 1..Len(StartupPhases) : Count(StartupPhases[i]) <= 1
    /\ Count("reprovision") <= 1
    /\ Len(log) <= Len(StartupPhases) =>
          log = SubSeq(StartupPhases, 1, Len(log))
    /\ error \in DOMAIN StartupError =>
          /\ pc \in {"done", "exited"}
          /\ outcome = "Err"
          /\ log = SubSeq(StartupPhases, 1, StartupError[error])
          /\ watchdog = "none"
          /\ image_gc = "none"
          /\ sigint = "absent"
          /\ sigterm = "absent"
          /\ mgmt_sent = 0
          /\ wl_sent = 0
          /\ sleeps = 0
          /\ reprov_calls = 0
          /\ (pc = "exited" => exit_status \in {"failure", "CONFIG"})
    /\ reprov_calls > 0 =>
          (pc \in {"done", "exited"} /\ Count("get_device_info") = 1)

C18_PhaseStep ==
    /\ pc = "done" => (log' = log /\ pc' \in {"done", "exited"}
                       /\ outcome' = outcome /\ error' = error)
    /\ pc \in {"exited", "panicked"} => (pc' = pc /\ log' = log)
    /\ \A i \in 1..Len(log) : (Len(log') >= i /\ log'[i] = log[i])

C18_NoRetry == []C18_PhaseState /\ [][C18_PhaseStep]_vars

\* the cache update failed after the Workload start and stop_all
C18_Witness ==
    /\ pc = "exited"
    /\ error = "update_device_cache"
    /\ workload = "started"
    /\ exit_status = "failure"

(***************************************************************************)
(* C19.  Whenever validation succeeds, the cleanup_time of the returned    *)
(* settings is "00:00", whether or not a cleanup_time was supplied and     *)
(* whatever it was.                                                        *)
(***************************************************************************)
C19_CleanupTimeIsDefault ==
    (is_some(check_result) /\ unwrap(check_result).ok) =>
        unwrap(check_result).value.cleanup_time = Some(<<"0", "0", ":", "0", "0">>)

\* "23:59" was supplied and accepted
C19_Witness ==
    /\ is_some(check_result)
    /\ unwrap(check_result).ok
    /\ gc_settings.cleanup_time = Some(<<"2", "3", ":", "5", "9">>)

(***************************************************************************)
(* C20.  The settings handed to the GC store and to the maintenance loop,  *)
(* and the flag that decides whether the loop is built, are those of the   *)
(* configuration as it was before validation (the section as configured,   *)
(* or the built-in defaults when there is no section), not the settings    *)
(* the validator returned: a field absent from a configured section is     *)
(* absent in what the store and the loop receive.                          *)
(***************************************************************************)
BuiltInDefaults ==
    [cleanup_recurrence |-> Some(60 * 60 * 24),
     image_age_cleanup_threshold |-> Some(60 * 60 * 24 * 7),
     cleanup_time |-> Some(<<"0", "0", ":", "0", "0">>), enabled |-> TRUE]

PreValidation == IF gc_config = None THEN Some(BuiltInDefaults) ELSE gc_config

AbsentStaysAbsent(given) ==
    is_some(gc_config) =>
        /\ unwrap(gc_config).cleanup_recurrence = None
              => unwrap(given).cleanup_recurrence = None
        /\ unwrap(gc_config).image_age_cleanup_threshold = None
              => unwrap(given).image_age_cleanup_threshold = None
        /\ unwrap(gc_config).cleanup_time = None
              => unwrap(given).cleanup_time = None

C20_ValidationIsGate ==
    /\ is_some(store_settings) =>
          (store_settings = PreValidation /\ AbsentStaysAbsent(store_settings))
    /\ is_some(loop_settings) =>
          (loop_settings = PreValidation /\ AbsentStaysAbsent(loop_settings))
    /\ Happened("steady_state") =>
          (image_gc # "none" <=> unwrap(PreValidation).enabled)
    /\ Happened("steady_state") =>
          (is_some(loop_settings) <=> unwrap(PreValidation).enabled)

\* a section with every optional field absent reached the store and the loop unchanged
C20_Witness ==
    /\ is_some(gc_config)
    /\ loop_settings = gc_config
    /\ store_settings = gc_config
    /\ unwrap(loop_settings).cleanup_recurrence = None
    /\ unwrap(check_result).value # unwrap(loop_settings)

=============================================================================
